---- MODULE Spec2Model ----
(***************************************************************************)
(* EasySandbox: the fixed-pool allocator (memmgr) behind malloc, free,     *)
(* calloc and realloc, modelled over a byte-addressed memory.              *)
(*                                                                         *)
(* Addresses and sizes are unsigned words of WordBits bits (ulong,         *)
(* size_t and pointers have one width on the LP64 build), so every sum     *)
(* and product is taken modulo 2^WordBits.  A header (mem_header_t) is     *)
(* SizeofHeader bytes; the pool is the mmap'ed region of HeapSize bytes    *)
(* at address PoolAddr; `base` is a static object outside the pool.        *)
(***************************************************************************)
EXTENDS Integers, Sequences, FiniteSets, TLC

VARIABLES
    size,           \* size[a]: the s.size field of the header at address a
    next,           \* next[a]: the s.next field of the header at address a
    freep,          \* start of the free list (0 is the null pointer)
    pool_free_pos,  \* the allocation cursor, a byte offset into the pool
    data,           \* data[i]: the byte at pool offset i
    status,         \* "ok"; "fault": an access left the pool; "hang": a scan did not end
    baseAddr,       \* the address the linker gave `base`
    live,           \* pointers handed out and not released yet -> requested bytes
    last,           \* the call made last
    ops,            \* calls made so far, in the runs whose length is bounded
    pc,             \* where main stands
    steps,          \* what main has done so far, in order
    exit_status     \* the status the process ended with, RUNNING before that

vars == <<size, next, freep, pool_free_pos, data, status, baseAddr, live, last, ops,
          pc, steps, exit_status>>

----------------------------------------------------------------------------
(* Bounds of the model *)

WordBits == 11      \* width of ulong / size_t / pointers in the model
HeapSize == 512     \* bytes of the region handed to memmgr_init
MaxLive == 2        \* outstanding allocations at any time
MaxOps == 4         \* calls in one run of SpecData and SpecWide

(* Program constants *)

SizeofHeader == 16
MIN_POOL_ALLOC_QUANTAS == 16
SECCOMP_ERROR == 17
MMAP_FAILED_ERROR == 18
PoolAddr == 512
BaseLow == 64
BaseHigh == 1536

RECURSIVE Pow2(_)
Pow2(n) == IF n = 0 THEN 1 ELSE 2 * Pow2(n - 1)

WordMod == Pow2(WordBits)
POOL_SIZE == HeapSize
HeapQ == HeapSize \div SizeofHeader
MaxIter == HeapQ + 4

NULL == 0
RUNNING == -1       \* exit_status of a process that has not ended
FAULT == -1
HANG == -2

(* The addresses at which a whole header lies inside the pool. *)
PoolSlots == { PoolAddr + SizeofHeader * i : i \in 0 .. (HeapQ - 1) }

(* p + k for a mem_header_t* p *)
PAdd(p, k) == (p + SizeofHeader * k) % WordMod

InPool(a) == a \in PoolSlots

----------------------------------------------------------------------------
(* The allocator state as one record, so that the functions of the source *)
(* are operators from heap to heap.                                        *)

Heap == [size |-> size, next |-> next, freep |-> freep, pos |-> pool_free_pos,
         data |-> data, st |-> status]

Valid(h, a) == a \in DOMAIN h.size

Faulted(h) == [h EXCEPT !.st = "fault"]
Hung(h) == [h EXCEPT !.st = "hang"]

(* The header fields live in size and next, the bytes a program, calloc or *)
(* realloc stored live in data.                                            *)
SetSize(h, a, v) == [h EXCEPT !.size[a] = v]
SetNext(h, a, v) == [h EXCEPT !.next[a] = v]

(* A block merged into its neighbour stops being a block: its header is   *)
(* from then on part of the neighbour's body, and size and next keep no   *)
(* entry for it until a header is stored there again.                     *)
Absorbed(h, a) ==
    IF a \in PoolSlots THEN [h EXCEPT !.size[a] = 0, !.next[a] = NULL] ELSE h

----------------------------------------------------------------------------
(* memmgr_free *)

(* Between with the upper test left out. *)
Between_Loose(block, p, n) == block > p

(* The end of the scan: !(block > p && block < p->s.next) is false. *)
Between(block, p, n) == block > p /\ block < n

(* The break of the scan: p >= p->s.next && (block > p || block < p->s.next), *)
(* the block belongs at the start or at the end of the arena.                 *)
AtWrap(block, p, n) == p >= n /\ (block > p \/ block < n)

(* The scan of the free list: the header p after which `block` belongs. *)
RECURSIVE FreeScan(_, _, _, _)
FreeScan(h, block, p, fuel) ==
    IF ~Valid(h, p) THEN FAULT
    ELSE IF fuel = 0 THEN HANG
    ELSE LET n == h.next[p] IN
         IF Between(block, p, n) THEN p
         ELSE IF AtWrap(block, p, n) THEN p
         ELSE FreeScan(h, block, n, fuel - 1)

(* JoinsUpper with the size added in bytes where the pointer counts headers. *)
JoinsUpper_Unscaled(h, block, p) == (block + h.size[block]) % WordMod = h.next[p]

(* block + block->s.size == p->s.next *)
JoinsUpper(h, block, p) == PAdd(block, h.size[block]) = h.next[p]

(* JoinsLower with the size added in bytes where the pointer counts headers. *)
JoinsLower_Unscaled(h, block, p) == (p + h.size[p]) % WordMod = block

(* p + p->s.size == block *)
JoinsLower(h, block, p) == PAdd(p, h.size[p]) = block

(* MergeUpper with the relinking alone, the size of the neighbour not added. *)
MergeUpper_NoSize(h, block, pn) ==
    Absorbed(SetNext(h, block, h.next[pn]), pn)

(* block->s.size += p->s.next->s.size; block->s.next = p->s.next->s.next *)
MergeUpper(h, block, pn) ==
    Absorbed(SetNext(SetSize(h, block, (h.size[block] + h.size[pn]) % WordMod),
                     block, h.next[pn]), pn)

(* MergeLower with the relinking alone, the size of the block not added. *)
MergeLower_NoSize(h, block, p) ==
    Absorbed(SetNext(h, p, h.next[block]), block)

(* p->s.size += block->s.size; p->s.next = block->s.next *)
MergeLower(h, block, p) ==
    Absorbed(SetNext(SetSize(h, p, (h.size[p] + h.size[block]) % WordMod),
                     p, h.next[block]), block)

memmgr_free(h, ap) ==
    LET block == PAdd(ap, -1)
        p == FreeScan(h, block, h.freep, MaxIter)
    IN  IF h.st # "ok" THEN h
        ELSE IF p = HANG THEN Hung(h)
        ELSE IF p = FAULT \/ ~Valid(h, block) THEN Faulted(h)
        ELSE
          LET pn == h.next[p]
              h1 == IF JoinsUpper(h, block, p)
                    THEN IF ~Valid(h, pn) THEN Faulted(h)
                         ELSE MergeUpper(h, block, pn)
                    ELSE SetNext(h, block, pn)
              h2 == IF h1.st # "ok" THEN h1
                    ELSE IF JoinsLower(h1, block, p)
                    THEN MergeLower(h1, block, p)
                    ELSE SetNext(h1, p, block)
          IN  IF h2.st # "ok" THEN h2 ELSE [h2 EXCEPT !.freep = p]

----------------------------------------------------------------------------
(* get_mem_from_pool *)

(* PoolHasRoom with < for <=. *)
PoolHasRoom_Strict(pos, total) == (pos + total) % WordMod < POOL_SIZE

(* pool_free_pos + total_req_size <= POOL_SIZE *)
PoolHasRoom(pos, total) == (pos + total) % WordMod <= POOL_SIZE

(* CarveQuantas without the floor of MIN_POOL_ALLOC_QUANTAS. *)
CarveQuantas_NoFloor(nquantas) == nquantas

CarveQuantas(nquantas) ==
    IF nquantas < MIN_POOL_ALLOC_QUANTAS THEN MIN_POOL_ALLOC_QUANTAS ELSE nquantas

(* get_mem_from_pool moving the cursor before it looks for room. *)
get_mem_from_pool_Bump(h, nquantas) ==
    LET nq == CarveQuantas(nquantas)
        total_req_size == (nq * SizeofHeader) % WordMod
        hd == PoolAddr + h.pos
    IN  IF PoolHasRoom(h.pos, total_req_size)
        THEN IF ~InPool(hd) THEN [heap |-> Faulted(h), ret |-> NULL]
             ELSE LET h1 == memmgr_free(SetSize(h, hd, nq), PAdd(hd, 1))
                  IN  [heap |-> [h1 EXCEPT !.pos = (h.pos + total_req_size) % WordMod],
                       ret |-> h1.freep]
        ELSE [heap |-> [h EXCEPT !.pos = (h.pos + total_req_size) % WordMod],
              ret |-> NULL]

get_mem_from_pool(h, nquantas) ==
    LET nq == CarveQuantas(nquantas)
        total_req_size == (nq * SizeofHeader) % WordMod
        hd == PoolAddr + h.pos
    IN  IF PoolHasRoom(h.pos, total_req_size)
        THEN IF ~InPool(hd) THEN [heap |-> Faulted(h), ret |-> NULL]
             ELSE LET h1 == memmgr_free(SetSize(h, hd, nq), PAdd(hd, 1))
                  IN  [heap |-> [h1 EXCEPT !.pos = (h.pos + total_req_size) % WordMod],
                       ret |-> h1.freep]
        ELSE [heap |-> h, ret |-> NULL]

----------------------------------------------------------------------------
(* memmgr_alloc *)

(* NQuantas without the quanta of the header. *)
NQuantas_NoHeader(nbytes) ==
    ((nbytes + SizeofHeader - 1) % WordMod) \div SizeofHeader

NQuantas(nbytes) ==
    ((nbytes + SizeofHeader - 1) % WordMod) \div SizeofHeader + 1

(* TakeBlock with the line `p->s.size -= nquantas` of the split left out. *)
TakeBlock_NoShrink(h, prevp, p, nquantas) ==
    IF h.size[p] = nquantas
    THEN [heap |-> [SetNext(h, prevp, h.next[p]) EXCEPT !.freep = prevp],
          ret |-> PAdd(p, 1)]
    ELSE LET t == PAdd(p, h.size[p] - nquantas)
         IN  IF ~Valid(h, t) THEN [heap |-> Faulted(h), ret |-> NULL]
             ELSE [heap |-> [SetSize(h, t, nquantas) EXCEPT !.freep = prevp],
                   ret |-> PAdd(t, 1)]

(* TakeBlock leaving freep at the block it hands out. *)
TakeBlock_FreepAtTaken(h, prevp, p, nquantas) ==
    IF h.size[p] = nquantas
    THEN [heap |-> [SetNext(h, prevp, h.next[p]) EXCEPT !.freep = p],
          ret |-> PAdd(p, 1)]
    ELSE LET rest == h.size[p] - nquantas
             t == PAdd(p, rest)
         IN  IF ~Valid(h, t) THEN [heap |-> Faulted(h), ret |-> NULL]
             ELSE [heap |-> [SetSize(SetSize(h, p, rest), t, nquantas) EXCEPT !.freep = t],
                   ret |-> PAdd(t, 1)]

(* TakeBlock handing out the low end of a larger block: the rest of the   *)
(* block gets a new header above it and takes its place in the list.      *)
TakeBlock_LowEnd(h, prevp, p, nquantas) ==
    IF h.size[p] = nquantas
    THEN [heap |-> [SetNext(h, prevp, h.next[p]) EXCEPT !.freep = prevp],
          ret |-> PAdd(p, 1)]
    ELSE LET rest == h.size[p] - nquantas
             t == PAdd(p, nquantas)
         IN  IF ~Valid(h, t) THEN [heap |-> Faulted(h), ret |-> NULL]
             ELSE [heap |-> [SetNext(SetNext(SetSize(SetSize(h, t, rest), p, nquantas),
                                             t, h.next[p]),
                                     prevp, t) EXCEPT !.freep = prevp],
                   ret |-> PAdd(p, 1)]

(* The block found is taken whole, or split and its tail returned. *)
TakeBlock(h, prevp, p, nquantas) ==
    IF h.size[p] = nquantas
    THEN [heap |-> [SetNext(h, prevp, h.next[p]) EXCEPT !.freep = prevp],
          ret |-> PAdd(p, 1)]
    ELSE LET rest == h.size[p] - nquantas
             t == PAdd(p, rest)
         IN  IF ~Valid(h, t) THEN [heap |-> Faulted(h), ret |-> NULL]
             ELSE [heap |-> [SetSize(SetSize(h, p, rest), t, nquantas) EXCEPT !.freep = prevp],
                   ret |-> PAdd(t, 1)]

(* p->s.size >= nquantas *)
BigEnough(h, p, nquantas) == h.size[p] >= nquantas

RECURSIVE AllocLoop(_, _, _, _, _)
AllocLoop(h, prevp, p, nquantas, fuel) ==
    IF h.st # "ok" THEN [heap |-> h, ret |-> NULL]
    ELSE IF fuel = 0 THEN [heap |-> Hung(h), ret |-> NULL]
    ELSE IF ~Valid(h, p) THEN [heap |-> Faulted(h), ret |-> NULL]
    ELSE IF BigEnough(h, p, nquantas) THEN TakeBlock(h, prevp, p, nquantas)
    ELSE IF p = h.freep
    THEN LET g == get_mem_from_pool(h, nquantas) IN
         IF g.heap.st # "ok" \/ g.ret = NULL THEN [heap |-> g.heap, ret |-> NULL]
         ELSE AllocLoop(g.heap, g.ret, g.heap.next[g.ret], nquantas, fuel - 1)
    ELSE AllocLoop(h, p, h.next[p], nquantas, fuel - 1)

(* First call: `base` becomes a one-element list that points to itself. *)
SeedList(h) ==
    IF h.freep = NULL
    THEN [h EXCEPT !.next[baseAddr] = baseAddr, !.size[baseAddr] = 0, !.freep = baseAddr]
    ELSE h

(* memmgr_alloc searching from base on every call. *)
memmgr_alloc_FirstFit(h, nbytes) ==
    LET h0 == SeedList(h)
    IN  AllocLoop(h0, baseAddr, h0.next[baseAddr], NQuantas(nbytes), MaxIter)

memmgr_alloc(h, nbytes) ==
    LET h0 == SeedList(h)
    IN  AllocLoop(h0, h0.freep, h0.next[h0.freep], NQuantas(nbytes), MaxIter)

memmgr_get_block_size(h, ap) == h.size[PAdd(ap, -1)]

----------------------------------------------------------------------------
(* malloc, free, calloc, realloc *)

(* The element of a set of one element: The({ e(x) : x \in {v} }) is e of *)
(* the value of v, which is computed once.                                *)
The(S) == CHOOSE y \in S : TRUE

malloc(h, nbytes) == memmgr_alloc(h, nbytes)

free(h, ptr) == memmgr_free(h, ptr)

(* Is the byte at address a one of the pool's? *)
ByteInPool(a) == a >= PoolAddr /\ a < PoolAddr + POOL_SIZE

(* for (p = buf; p < buf + (nmemb * size); p++) *p = 0 *)
ZeroFill(h, buf, count) ==
    LET end == (buf + count) % WordMod
    IN  IF end <= buf THEN h
        ELSE IF ~ByteInPool(buf) \/ ~ByteInPool(end - 1) THEN Faulted(h)
        ELSE [h EXCEPT !.data =
                 [i \in (buf - PoolAddr) .. (end - 1 - PoolAddr) |-> 0] @@ h.data]

calloc(h, nmemb, sz) ==
    The({ IF r.heap.st = "ok" /\ r.ret # NULL
          THEN [heap |-> ZeroFill(r.heap, r.ret, (nmemb * sz) % WordMod),
                ret |-> r.ret]
          ELSE r
          : r \in {malloc(h, (nmemb * sz) % WordMod)} })

(* for (i = 0; i < to_copy; i++) *dst++ = *src++, one byte after the     *)
(* other from the lowest up: where dst lies d < n bytes above src, the     *)
(* bytes read from src + d on are bytes this loop stored before.           *)
CopyBytes(h, dst, src, n) ==
    LET d == dst - src
        From(i) == IF d > 0 /\ d < n THEN src + (i % d) ELSE src + i
    IN  IF n = 0 \/ h.st # "ok" THEN h
        ELSE IF ~ByteInPool(dst) \/ ~ByteInPool(src)
                \/ ~ByteInPool(dst + n - 1) \/ ~ByteInPool(src + n - 1) THEN Faulted(h)
        ELSE [h EXCEPT !.data =
                 [j \in (dst - PoolAddr) .. (dst - PoolAddr + n - 1) |->
                     h.data[From(j - (dst - PoolAddr)) - PoolAddr]] @@ h.data]

(* to_copy = alloc_size; if (to_copy > size) to_copy = size *)
ToCopy(alloc_size, sz) == IF alloc_size > sz THEN sz ELSE alloc_size

(* realloc with free(ptr) outside the test of buf. *)
realloc_FreesAlways(h, ptr, sz) ==
    The({ IF r.heap.st = "ok" /\ r.ret # NULL
          THEN IF ~Valid(r.heap, PAdd(ptr, -1))
               THEN [heap |-> Faulted(r.heap), ret |-> NULL]
               ELSE [heap |-> The({ free(h1, ptr)
                                    : h1 \in {CopyBytes(r.heap, r.ret, ptr,
                                                 ToCopy(memmgr_get_block_size(r.heap, ptr), sz))} }),
                     ret |-> r.ret]
          ELSE [heap |-> free(r.heap, ptr), ret |-> r.ret]
          : r \in {malloc(h, sz)} })

realloc(h, ptr, sz) ==
    The({ IF r.heap.st = "ok" /\ r.ret # NULL
          THEN IF ~Valid(r.heap, PAdd(ptr, -1))
               THEN [heap |-> Faulted(r.heap), ret |-> NULL]
               ELSE [heap |-> The({ free(h1, ptr)
                                    : h1 \in {CopyBytes(r.heap, r.ret, ptr,
                                                 ToCopy(memmgr_get_block_size(r.heap, ptr), sz))} }),
                     ret |-> r.ret]
          ELSE r
          : r \in {malloc(h, sz)} })

----------------------------------------------------------------------------
(* The free list as the sequence of headers met from freep round to freep. *)

RECURSIVE ListFrom(_, _, _, _)
ListFrom(h, p, acc, fuel) ==
    IF fuel = 0 \/ ~Valid(h, p) THEN acc
    ELSE IF Len(acc) > 0 /\ p = h.freep THEN acc
    ELSE ListFrom(h, h.next[p], Append(acc, p), fuel - 1)

FreeList(h) == IF h.freep = NULL THEN <<>> ELSE ListFrom(h, h.freep, <<>>, MaxIter)

(* The blocks of the pool that are in the free list (the sentinel is none). *)
FreeBlocks(h) ==
    LET fl == FreeList(h) IN { fl[i] : i \in 1 .. Len(fl) } \ {baseAddr}

RECURSIVE SumSizes(_, _)
SumSizes(h, S) ==
    IF S = {} THEN 0
    ELSE LET a == CHOOSE x \in S : TRUE IN h.size[a] + SumSizes(h, S \ {a})

FreeQuantas(h) == SumSizes(h, FreeBlocks(h))

(* Header of the block whose payload starts at ptr, and its usable bytes. *)
HeaderOf(ptr) == PAdd(ptr, -1)
Usable(h, ptr) == (h.size[HeaderOf(ptr)] - 1) * SizeofHeader

----------------------------------------------------------------------------
(* The calls the untrusted program makes. *)

ReqSizes == {16, 112, 224, 304, 600}
WideSizes == {WordMod - 1, WordMod - SizeofHeader, WordMod - 2 * SizeofHeader}
DataSizes == {16, 40}
CallocArgs == {<<2, 8>>, <<5, 8>>}
WideCallocArgs == {<<WordMod \div 2, 2>>, <<WordMod \div 4 + 4, 4>>}
Stamps == {0, 1}

(* The byte a program stores at offset i of a buffer it stamps with v. *)
Pat(v, i) == 1 + ((v + i) % 3)

(* What is kept of the last call: op, its arguments a1 and a2, the value  *)
(* it returned, the cursor (pos0) and the free quantas (fq0) before it.   *)
(* Of a free: bq, the size field of the block released; low, the size     *)
(* field of the block the call before released, when that block ended     *)
(* where this one starts.  Of a malloc: again, the call before released a *)
(* block that had been requested with the same size, and fqr, the free    *)
(* quantas before that release; coal, the two calls before released two   *)
(* neighbouring blocks, the lower first, and this request is the sum of   *)
(* their usable bytes.                                                     *)
NoCall == [op |-> "none", a1 |-> 0, a2 |-> 0, ret |-> NULL, pos0 |-> 0, fq0 |-> 0,
           bq |-> 0, low |-> 0, again |-> FALSE, fqr |-> 0, coal |-> FALSE]

Install(h) ==
    /\ size' = h.size
    /\ next' = h.next
    /\ freep' = h.freep
    /\ pool_free_pos' = h.pos
    /\ data' = h.data
    /\ status' = h.st

(* rec: the call; r: what it returned and the heap it left; liveAfter: the *)
(* pointers the program holds after it.                                    *)
Call(rec, r, liveAfter) ==
    /\ Install(r.heap)
    /\ live' = IF r.heap.st = "ok" THEN liveAfter ELSE live
    /\ last' = [rec EXCEPT !.ret = r.ret, !.pos0 = pool_free_pos, !.fq0 = FreeQuantas(Heap)]
    /\ UNCHANGED <<baseAddr, pc, steps, exit_status>>

(* The untrusted program runs, and no call of it has gone wrong. *)
InRealmain == pc = "realmain" /\ status = "ok"

Without(f, x) == [y \in (DOMAIN f) \ {x} |-> f[y]]

MallocCall(n) ==
    /\ InRealmain
    /\ Cardinality(DOMAIN live) < MaxLive
    /\ \E r \in {malloc(Heap, n)} :
           Call([NoCall EXCEPT !.op = "malloc", !.a1 = n,
                       !.again = (last.op = "free" /\ last.a2 = n),
                       !.fqr = IF last.op = "free" /\ last.a2 = n THEN last.fq0 ELSE 0,
                       !.coal = (last.op = "free" /\ last.low > 0
                                 /\ n = (last.low - 1 + last.bq - 1) * SizeofHeader)], r,
                IF r.ret # NULL THEN (r.ret :> n) @@ live ELSE live)

FreeCall(ptr) ==
    /\ InRealmain
    /\ ptr \in DOMAIN live
    /\ \E h \in {free(Heap, ptr)} :
           Call([NoCall EXCEPT !.op = "free", !.a1 = ptr, !.a2 = live[ptr],
                               !.bq = size[HeaderOf(ptr)],
                               !.low = IF last.op = "free"
                                          /\ PAdd(HeaderOf(last.a1), last.bq) = HeaderOf(ptr)
                                       THEN last.bq ELSE 0],
                [heap |-> h, ret |-> NULL],
                Without(live, ptr))

CallocCall(nmemb, sz) ==
    /\ InRealmain
    /\ Cardinality(DOMAIN live) < MaxLive
    /\ \E r \in {calloc(Heap, nmemb, sz)} :
           Call([NoCall EXCEPT !.op = "calloc", !.a1 = nmemb, !.a2 = sz], r,
                IF r.ret # NULL THEN (r.ret :> ((nmemb * sz) % WordMod)) @@ live ELSE live)

ReallocCall(ptr, n) ==
    /\ InRealmain
    /\ ptr \in DOMAIN live
    /\ \E r \in {realloc(Heap, ptr, n)} :
           Call([NoCall EXCEPT !.op = "realloc", !.a1 = ptr, !.a2 = n, !.bq = live[ptr]], r,
                IF r.ret # NULL THEN (r.ret :> n) @@ Without(live, ptr) ELSE live)

(* The program stores into a buffer it owns, over the bytes it asked for. *)
StoreCall(ptr, v) ==
    /\ InRealmain
    /\ ptr \in DOMAIN live
    /\ live[ptr] > 0
    /\ live[ptr] <= Usable(Heap, ptr)
    /\ data' = [i \in (ptr - PoolAddr) .. (ptr - PoolAddr + live[ptr] - 1) |->
                  Pat(v, i - (ptr - PoolAddr))] @@ data
    /\ last' = [NoCall EXCEPT !.op = "store", !.a1 = ptr, !.a2 = v]
    /\ UNCHANGED <<size, next, freep, pool_free_pos, status, baseAddr, live,
                   pc, steps, exit_status>>

(* One more call of a run of bounded length. *)
Counted == ops < MaxOps /\ ops' = ops + 1

(* The statics as the loader leaves them (base zeroed, freep = 0,         *)
(* pool_free_pos = 0) and as memmgr_init sets them again, over the        *)
(* untouched pages mmap returns.                                           *)
Fresh ==
    /\ baseAddr \in {BaseLow, BaseHigh}
    /\ size = [a \in PoolSlots \cup {baseAddr} |-> 0]
    /\ next = [a \in PoolSlots \cup {baseAddr} |-> NULL]
    /\ freep = NULL
    /\ pool_free_pos = 0
    /\ data = [i \in 0 .. (HeapSize - 1) |-> 0]
    /\ status = "ok"
    /\ live = <<>>
    /\ last = NoCall
    /\ ops = 0

(* The steps of a main that reaches realmain. *)
BootOrder == <<"mmap", "memmgr_init", "prctl", "realmain">>

(* realmain has just been entered. *)
Init ==
    /\ Fresh
    /\ pc = "realmain"
    /\ steps = BootOrder
    /\ exit_status = RUNNING

(* malloc and free with requests that do not wrap *)
Next ==
    \/ \E n \in ReqSizes : MallocCall(n) /\ UNCHANGED ops
    \/ \E p \in DOMAIN live : FreeCall(p) /\ UNCHANGED ops

Spec == Init /\ [][Next]_vars

(* The quanta of the blocks held, and a request that keeps the blocks held *)
(* and the block asked for, headers included, within the capacity.        *)
LiveQuantas == SumSizes(Heap, { HeaderOf(p) : p \in DOMAIN live })

WithinCapacity(n) == (LiveQuantas + NQuantas(n)) * SizeofHeader <= POOL_SIZE

NextFit ==
    \/ \E n \in ReqSizes : WithinCapacity(n) /\ MallocCall(n) /\ UNCHANGED ops
    \/ \E p \in DOMAIN live : FreeCall(p) /\ UNCHANGED ops

SpecFit == Init /\ [][NextFit]_vars

(* all four calls and the program's stores, over small buffers *)
NextData ==
    \/ \E n \in DataSizes : MallocCall(n) /\ Counted
    \/ \E p \in DOMAIN live : FreeCall(p) /\ Counted
    \/ \E c \in CallocArgs : CallocCall(c[1], c[2]) /\ Counted
    \/ \E p \in DOMAIN live, n \in DataSizes \cup {HeapSize + 88} : ReallocCall(p, n) /\ Counted
    \/ \E p \in DOMAIN live, v \in Stamps : StoreCall(p, v) /\ Counted

SpecData == Init /\ [][NextData]_vars

(* all four calls with requests over the whole range of the size type *)
NextWide ==
    \/ \E n \in {16, 304} \cup WideSizes : MallocCall(n) /\ Counted
    \/ \E p \in DOMAIN live : FreeCall(p) /\ Counted
    \/ \E c \in CallocArgs \cup WideCallocArgs : CallocCall(c[1], c[2]) /\ Counted
    \/ \E p \in DOMAIN live, n \in {32} \cup WideSizes : ReallocCall(p, n) /\ Counted

SpecWide == Init /\ [][NextWide]_vars

----------------------------------------------------------------------------
(* main *)

Allocator == <<size, next, freep, pool_free_pos, data, status, baseAddr, live, last, ops>>

(* One step of main: it moves to pc `to`, having done `done`. *)
Step(from, to, done) ==
    /\ pc = from
    /\ pc' = to
    /\ steps' = Append(steps, done)

(* heap = mmap(...); if (heap == MAP_FAILED) _exit(MMAP_FAILED_ERROR) *)
MmapStep(ok) ==
    /\ IF ok THEN Step("mmap", "memmgr_init", "mmap") /\ UNCHANGED exit_status
             ELSE Step("mmap", "exited", "mmap_failed")
                  /\ exit_status' = MMAP_FAILED_ERROR
    /\ UNCHANGED Allocator

(* MemmgrInitStep going on to the call of realmain, the prctl left out. *)
MemmgrInitStep_SkipsLockdown ==
    /\ Step("memmgr_init", "call", "memmgr_init")
    /\ size' = [size EXCEPT ![baseAddr] = 0]
    /\ next' = [next EXCEPT ![baseAddr] = NULL]
    /\ freep' = NULL
    /\ pool_free_pos' = 0
    /\ UNCHANGED <<data, status, baseAddr, live, last, ops, exit_status>>

(* memmgr_init(heap, heapsize) *)
MemmgrInitStep ==
    /\ Step("memmgr_init", "prctl", "memmgr_init")
    /\ size' = [size EXCEPT ![baseAddr] = 0]
    /\ next' = [next EXCEPT ![baseAddr] = NULL]
    /\ freep' = NULL
    /\ pool_free_pos' = 0
    /\ UNCHANGED <<data, status, baseAddr, live, last, ops, exit_status>>

(* PrctlStep without the _exit: a failed prctl goes on to realmain. *)
PrctlStep_IgnoresFailure(ok) ==
    /\ IF ok THEN Step("prctl", "call", "prctl")
             ELSE Step("prctl", "call", "prctl_failed")
    /\ UNCHANGED <<Allocator, exit_status>>

(* if (prctl(PR_SET_SECCOMP, 1, 0, 0) < 0) _exit(SECCOMP_ERROR) *)
PrctlStep(ok) ==
    /\ IF ok THEN Step("prctl", "call", "prctl") /\ UNCHANGED exit_status
             ELSE Step("prctl", "exited", "prctl_failed")
                  /\ exit_status' = SECCOMP_ERROR
    /\ UNCHANGED Allocator

(* realmain(argc, argv, envp) is called *)
RealmainCall ==
    /\ Step("call", "realmain", "realmain")
    /\ UNCHANGED <<Allocator, exit_status>>

(* return realmain(...): the status realmain returns is main's. *)
RealmainReturn(code) ==
    /\ InRealmain
    /\ pc' = "returned"
    /\ exit_status' = code
    /\ UNCHANGED <<Allocator, steps>>

(* The statuses realmain returns in the runs explored. *)
ExitCodes == {0, 3, SECCOMP_ERROR}

InitBoot ==
    /\ Fresh
    /\ pc = "mmap"
    /\ steps = <<>>
    /\ exit_status = RUNNING

(* main from its first line, with a realmain that calls malloc and free *)
NextBoot ==
    \/ \E ok \in BOOLEAN : MmapStep(ok)
    \/ MemmgrInitStep
    \/ \E ok \in BOOLEAN : PrctlStep(ok)
    \/ RealmainCall
    \/ \E n \in {16, 304} : MallocCall(n) /\ UNCHANGED ops
    \/ \E p \in DOMAIN live : FreeCall(p) /\ UNCHANGED ops
    \/ \E code \in ExitCodes : RealmainReturn(code)

SpecBoot == InitBoot /\ [][NextBoot]_vars

----------------------------------------------------------------------------
(* What the claims speak of. *)

(* The bytes of the block with its header at a: a .. BlockEnd(a) - 1. *)
BlockEnd(a) == a + size[a] * SizeofHeader

Overlap(a, b) == a < BlockEnd(b) /\ b < BlockEnd(a)

(* The headers of the blocks the program holds. *)
LiveBlocks == { HeaderOf(p) : p \in DOMAIN live }

(* The free list as the set of its blocks with their sizes. *)
FreeImage(h) == { <<a, h.size[a]>> : a \in FreeBlocks(h) }

----------------------------------------------------------------------------
(* C1: with malloc and free used as documented and every request at most  *)
(* the capacity of the region, no two blocks the program holds overlap    *)
(* (header and payload), and none overlaps a block of the free list.      *)
C1_NoOverlap ==
    /\ status = "ok"
    /\ \A a \in LiveBlocks : a \in PoolSlots /\ size[a] >= 1
    /\ \A a, b \in LiveBlocks : a # b => ~Overlap(a, b)
    /\ \A a \in LiveBlocks : \A f \in FreeBlocks(Heap) : ~Overlap(a, f)

(* Two blocks are held, one of them handed out right after a release,     *)
(* and the free list holds a block.                                       *)
C1_Witness ==
    /\ Cardinality(DOMAIN live) = 2
    /\ FreeBlocks(Heap) # {}
    /\ last.op = "malloc" /\ last.again /\ last.ret # NULL

(* C2: malloc(n) with n above the capacity of the region returns NULL     *)
(* and leaves the cursor and the free list as they were, for every n of   *)
(* the size type.                                                          *)
C2_TooLargeIsNull ==
    (last.op = "malloc" /\ last.a1 > POOL_SIZE)
        => /\ last.ret = NULL
           /\ pool_free_pos = last.pos0
           /\ FreeQuantas(Heap) = last.fq0

(* C3: a realloc that succeeds leaves in the first min(oldSize, newSize)  *)
(* bytes of the new block the bytes the old block held there.             *)
C3_ReallocKeepsPrefix ==
    [][ (last'.op = "realloc" /\ last'.ret # NULL /\ status' = "ok")
            => \A i \in 0 .. ((IF last'.bq < last'.a2 THEN last'.bq ELSE last'.a2) - 1) :
                   data'[last'.ret - PoolAddr + i] = data[last'.a1 - PoolAddr + i]
      ]_vars

(* C4: a realloc whose malloc fails returns NULL; the old block is still  *)
(* held and not in the free list, keeps its size and its bytes, and the   *)
(* cursor and the free list are as before.                                *)
C4_FailedReallocKeepsOld ==
    [][ (last'.op = "realloc" /\ last'.ret = NULL)
            => /\ status' = "ok"
               /\ live' = live
               /\ HeaderOf(last'.a1) \notin FreeBlocks(Heap')
               /\ size'[HeaderOf(last'.a1)] = size[HeaderOf(last'.a1)]
               /\ \A i \in 0 .. (last'.bq - 1) :
                      data'[last'.a1 - PoolAddr + i] = data[last'.a1 - PoolAddr + i]
               /\ pool_free_pos' = pool_free_pos
               /\ FreeImage(Heap') = FreeImage(Heap)
      ]_vars

(* A realloc returned NULL for a block that is held and holds the bytes   *)
(* the program stored in it.                                              *)
C4_Witness ==
    /\ last.op = "realloc" /\ last.ret = NULL
    /\ last.a1 \in DOMAIN live
    /\ data[last.a1 - PoolAddr] # 0

(* C5: a pointer malloc(n) returns, n at most the capacity, lies one      *)
(* header past the header of a block that is not in the free list, has at *)
(* least n usable bytes, lies a multiple of the header size from the      *)
(* start of the region, and its block lies inside the region.             *)
C5_ResultFits ==
    (last.op = "malloc" /\ last.ret # NULL /\ last.a1 <= POOL_SIZE)
        => /\ last.ret >= PoolAddr + SizeofHeader
           /\ (last.ret - PoolAddr) % SizeofHeader = 0
           /\ HeaderOf(last.ret) \in PoolSlots
           /\ HeaderOf(last.ret) \notin FreeBlocks(Heap)
           /\ size[HeaderOf(last.ret)] = NQuantas(last.a1)
           /\ (size[HeaderOf(last.ret)] - 1) * SizeofHeader >= last.a1
           /\ BlockEnd(HeaderOf(last.ret)) <= PoolAddr + POOL_SIZE

(* malloc(304) returned a block cut from the end of a larger free block.  *)
C5_Witness ==
    /\ last.op = "malloc" /\ last.ret # NULL /\ last.a1 = 304
    /\ \E f \in FreeBlocks(Heap) : BlockEnd(f) = HeaderOf(last.ret)

Carved(n) ==
    IF NQuantas(n) < MIN_POOL_ALLOC_QUANTAS THEN MIN_POOL_ALLOC_QUANTAS ELSE NQuantas(n)

Room(h) == (POOL_SIZE - h.pos) \div SizeofHeader

C8_CoalescedReuse ==
    (last.op = "malloc" /\ last.coal)
        => last.ret # NULL /\ pool_free_pos = last.pos0

(* Such a malloc was served, by a block larger than any that was held.    *)
C8_Witness ==
    /\ last.op = "malloc" /\ last.coal /\ last.ret # NULL
    /\ size[HeaderOf(last.ret)] = NQuantas(last.a1)
    /\ last.a1 = 224

(* C9: free of a block that malloc(n) returned and then malloc(n) again:  *)
(* the malloc returns non-NULL, the cursor stays, and the free quanta     *)
(* after it are no fewer than before the free.                            *)
C9_FreeThenSameSize ==
    (last.op = "malloc" /\ last.again)
        => /\ last.ret # NULL
           /\ pool_free_pos = last.pos0
           /\ FreeQuantas(Heap) >= last.fqr

(* Such a malloc was served while the free list held other blocks.        *)
C9_Witness ==
    /\ last.op = "malloc" /\ last.again /\ last.ret # NULL
    /\ last.fqr > 0
    /\ Cardinality(DOMAIN live) = 2

(* C10: a malloc that returns NULL leaves the cursor, the blocks held and *)
(* the blocks and sizes of the free list as they were, and no malloc      *)
(* makes a request succeed that would have returned NULL before it.       *)
C10_NullChangesNothing ==
    [][ last'.op = "malloc"
            => /\ last'.ret = NULL
                   => /\ status' = "ok"
                      /\ pool_free_pos' = pool_free_pos
                      /\ live' = live
                      /\ \A a \in LiveBlocks : size'[a] = size[a]
                      /\ FreeImage(Heap') = FreeImage(Heap)
                      /\ data' = data
                      /\ malloc(Heap', last'.a1).ret = NULL
               /\ \A n \in ReqSizes :
                      malloc(Heap, n).ret = NULL => malloc(Heap', n).ret = NULL
      ]_vars

(* malloc returned NULL while a block is held and the free list holds a   *)
(* block.                                                                 *)
C10_Witness ==
    /\ last.op = "malloc" /\ last.ret = NULL
    /\ live # <<>>
    /\ FreeBlocks(Heap) # {}

(* main has done step x. *)
Did(x) == \E i \in 1 .. Len(steps) : steps[i] = x

(* C11: realmain is called at most once, and only after mmap succeeded,   *)
(* memmgr_init ran and prctl succeeded, in this order, the prctl being    *)
(* the step right before the call; main does no step twice.               *)
C11_BootOrder ==
    /\ \A i, j \in 1 .. Len(steps) : i # j => steps[i] # steps[j]
    /\ (pc \in {"realmain", "returned"} \/ Did("realmain")) => steps = BootOrder
    /\ \A i \in 1 .. Len(steps) :
           steps[i] = "realmain" => i > 1 /\ steps[i - 1] = "prctl"
    /\ Did("prctl") => Did("memmgr_init")
    /\ Did("memmgr_init") => Did("mmap")
    /\ (live # <<>> \/ last.op # "none") => Did("realmain")

(* realmain was called, allocated, and returned. *)
C11_Witness ==
    /\ pc = "returned"
    /\ Did("realmain")
    /\ last.op = "malloc" /\ last.ret # NULL

(* C12: a failed mmap ends the process with status 18, with no            *)
(* memmgr_init, no prctl and no call of realmain; a failed prctl ends it  *)
(* with status 17, with no call of realmain; 17 and 18 differ.            *)
C12_FailuresExit ==
    /\ Did("mmap_failed")
           => /\ steps = <<"mmap_failed">>
              /\ pc = "exited"
              /\ exit_status = MMAP_FAILED_ERROR /\ exit_status = 18
              /\ freep = NULL /\ last.op = "none"
    /\ Did("prctl_failed")
           => /\ steps = <<"mmap", "memmgr_init", "prctl_failed">>
              /\ pc = "exited"
              /\ exit_status = SECCOMP_ERROR /\ exit_status = 17
              /\ last.op = "none"
    /\ MMAP_FAILED_ERROR # SECCOMP_ERROR

(* The mmap failed and the process has ended. *)
C12_Witness ==
    /\ Did("mmap_failed")
    /\ pc = "exited"
    /\ exit_status = MMAP_FAILED_ERROR

(* C13: over malloc, free, calloc and realloc with requests of any size   *)
(* of the size type, the cursor never decreases from a state to the next  *)
(* and never exceeds the capacity.                                        *)
C13_CursorMonotone ==
    [][ pool_free_pos' >= pool_free_pos /\ pool_free_pos' <= POOL_SIZE ]_vars

(* The blocks there are: those the program holds and those of the free list. *)
AllBlocks == LiveBlocks \cup FreeBlocks(Heap)

(* C14: between calls the blocks partition the carved part of the pool:   *)
(* every block lies below the cursor, no two blocks share a quantum, the  *)
(* sizes sum to the cursor, a block held is not in the free list, and a   *)
(* free block is in the free list once; no free block reaches past the    *)
(* cursor.                                                                 *)
C14_Partition ==
    LET fl == FreeList(Heap)
    IN  /\ \A i, j \in 1 .. Len(fl) : i # j => fl[i] # fl[j]
        /\ LiveBlocks \cap FreeBlocks(Heap) = {}
        /\ \A b \in AllBlocks :
               /\ b \in PoolSlots
               /\ size[b] >= 1
               /\ BlockEnd(b) <= PoolAddr + pool_free_pos
        /\ \A a, b \in AllBlocks : a # b => ~Overlap(a, b)
        /\ SumSizes(Heap, AllBlocks) * SizeofHeader = pool_free_pos

(* The whole pool is carved, into blocks held and at least two free ones. *)
C14_Witness ==
    /\ pool_free_pos = POOL_SIZE
    /\ Cardinality(LiveBlocks) = 2
    /\ Cardinality(FreeBlocks(Heap)) >= 2

(* The links of the free list that do not go to a higher address. *)
Descents(h) ==
    LET fl == FreeList(h)
    IN  { i \in 1 .. Len(fl) : h.next[fl[i]] <= fl[i] }

(* C15: from the first malloc on, the free list with the sentinel base is *)
(* one cycle whose links all go to a higher address but for exactly one,  *)
(* the wraparound link; alone, base links to itself.                      *)
C15_OrderedCycle ==
    freep # NULL
        => LET fl == FreeList(Heap)
           IN  /\ Len(fl) >= 1
               /\ \A i, j \in 1 .. Len(fl) : i # j => fl[i] # fl[j]
               /\ \E i \in 1 .. Len(fl) : fl[i] = baseAddr
               /\ \A i \in 1 .. (Len(fl) - 1) : next[fl[i]] = fl[i + 1]
               /\ next[fl[Len(fl)]] = fl[1]
               /\ Cardinality(Descents(Heap)) = 1
               /\ FreeBlocks(Heap) = {} => next[baseAddr] = baseAddr

(* A release has put a block between two links of a free list that holds *)
(* base and two blocks or more.                                           *)
C15_Witness ==
    /\ last.op = "free"
    /\ Cardinality(FreeBlocks(Heap)) >= 2
    /\ freep # baseAddr

(* C16: after every malloc and free no free block ends where another      *)
(* free block starts, a block newly carved right above a free block       *)
(* included.                                                               *)
C16_Coalesced ==
    \A a, b \in FreeBlocks(Heap) : BlockEnd(a) # b

(* A malloc carved new space right above a free block: the free block     *)
(* left over spans the place where the cursor was.                        *)
C16_Witness ==
    /\ last.op = "malloc" /\ last.ret # NULL
    /\ pool_free_pos > last.pos0
    /\ \E f \in FreeBlocks(Heap) :
           f < PoolAddr + last.pos0 /\ BlockEnd(f) > PoolAddr + last.pos0

(* C17: a malloc served by a free block f of more than the q quantas it   *)
(* needs leaves f in the free list at its address with size less by q,    *)
(* and returns the highest q quantas of f under a header of size q; the   *)
(* two sizes sum to the size f had.  The block served from may be one     *)
(* of the free list before the call, or the space the call carved at the  *)
(* cursor, alone or merged into the free block that ended there.          *)
C17_SplitFromTop ==
    [][ (last'.op = "malloc" /\ last'.ret # NULL)
            => LET q == NQuantas(last'.a1)
                   t == HeaderOf(last'.ret)
                   cur == PoolAddr + pool_free_pos
               IN  /\ size'[t] = q
                   /\ \A f \in FreeBlocks(Heap) :
                          /\ size[f] > q => t # f
                          /\ (f < t /\ t < BlockEnd(f))
                                 => /\ f \in FreeBlocks(Heap')
                                    /\ size'[f] = size[f] - q
                                    /\ t = f + size'[f] * SizeofHeader
                                    /\ size'[f] + size'[t] = size[f]
                   /\ pool_free_pos' > pool_free_pos
                          => /\ t + q * SizeofHeader = PoolAddr + pool_free_pos'
                             /\ t > cur
                                    => \E f \in FreeBlocks(Heap') :
                                           /\ f + size'[f] * SizeofHeader = t
                                           /\ \/ f = cur
                                              \/ f \in FreeBlocks(Heap) /\ BlockEnd(f) = cur
                                           /\ (size'[f] + q) * SizeofHeader
                                                  = PoolAddr + pool_free_pos' - f
      ]_vars

(* A malloc was served from the top of a free block of the list, without  *)
(* new space: the block below the one returned is free and was so before. *)
C17_Witness ==
    /\ last.op = "malloc" /\ last.ret # NULL
    /\ pool_free_pos = last.pos0
    /\ \E f \in FreeBlocks(Heap) : BlockEnd(f) = HeaderOf(last.ret)

(* C18: calloc(nmemb, size) returns NULL or a pointer to a block with at  *)
(* least nmemb * size usable bytes, the product taken in the integers,    *)
(* and each of these bytes reads zero.                                    *)
C18_CallocZeroed ==
    (last.op = "calloc" /\ last.ret # NULL /\ status = "ok")
        => /\ Usable(Heap, last.ret) >= last.a1 * last.a2
           /\ \A i \in 0 .. (last.a1 * last.a2 - 1) :
                  data[last.ret - PoolAddr + i] = 0

(* The free list in the order the search of memmgr_alloc meets it: from   *)
(* the successor of freep round to freep.                                 *)
WalkOrder(h) ==
    LET fl == FreeList(h)
    IN  IF Len(fl) = 0 THEN <<>> ELSE Append(Tail(fl), fl[1])

(* The first block of that order with q quantas or more, NULL if none. *)
FirstFit(h, q) ==
    LET w == WalkOrder(h)
        I == { i \in 1 .. Len(w) : h.size[w[i]] >= q }
    IN  IF I = {} THEN NULL ELSE w[CHOOSE i \in I : \A j \in I : i <= j]

(* The headers of the free list, base included. *)
ListNodes(h) == LET fl == FreeList(h) IN { fl[i] : i \in 1 .. Len(fl) }

(* The node of the list after which address a belongs. *)
PlaceOf(h, a) ==
    { x \in ListNodes(h) :
          \/ x < a /\ a < h.next[x]
          \/ x >= h.next[x] /\ (a > x \/ a < h.next[x]) }

(* C19: malloc takes the first block large enough that the walk from the  *)
(* successor of freep meets, and leaves freep at the list predecessor of  *)
(* the block it used; free leaves freep at the list predecessor of the    *)
(* block released, or at the block it was merged into.                    *)
C19_NextFit ==
    [][ /\ (last'.op = "malloc" /\ last'.ret # NULL /\ pool_free_pos' = pool_free_pos)
               => LET u == FirstFit(Heap, NQuantas(last'.a1))
                      t == HeaderOf(last'.ret)
                  IN  /\ u # NULL
                      /\ u <= t /\ t < BlockEnd(u)
                      /\ freep' \in ListNodes(Heap)
                      /\ next[freep'] = u
        /\ (last'.op = "malloc" /\ last'.ret # NULL /\ pool_free_pos' > pool_free_pos)
               => LET t == HeaderOf(last'.ret)
                      below == { f \in FreeBlocks(Heap') : f + size'[f] * SizeofHeader = t }
                  IN  /\ freep' \in ListNodes(Heap')
                      /\ IF below # {} THEN next'[freep'] \in below
                                       ELSE freep' \in PlaceOf(Heap', t)
        /\ last'.op = "free"
               => LET b == HeaderOf(last'.a1)
                  IN  /\ freep' \in ListNodes(Heap')
                      /\ \/ b \in FreeBlocks(Heap') /\ next'[freep'] = b
                         \/ /\ b \notin FreeBlocks(Heap')
                            /\ freep' < b /\ b < freep' + size'[freep'] * SizeofHeader
      ]_vars

(* A malloc was served without new space by a block above a free block    *)
(* that is large enough too and is not what is left of the block used.    *)
C19_Witness ==
    /\ last.op = "malloc" /\ last.ret # NULL
    /\ pool_free_pos = last.pos0
    /\ \E f \in FreeBlocks(Heap) :
           /\ f < HeaderOf(last.ret)
           /\ BlockEnd(f) # HeaderOf(last.ret)
           /\ size[f] >= NQuantas(last.a1)

(* The search of memmgr_alloc for nbytes, cut off after `rounds` headers. *)
SearchWithin(h, nbytes, rounds) ==
    LET h0 == SeedList(h)
    IN  AllocLoop(h0, h0.freep, h0.next[h0.freep], NQuantas(nbytes), rounds)

(* C20: every malloc ends within one round of the free list before it     *)
(* carves at the cursor and one more round after; the scan of every free  *)
(* of a held pointer ends within one round; freep refers to a header of   *)
(* the free list, so the round comes back to it.                          *)
C20_Terminates ==
    /\ status = "ok"
    /\ freep # NULL
           => LET fl == FreeList(Heap)
              IN  /\ next[fl[Len(fl)]] = freep
                  /\ baseAddr \in ListNodes(Heap)
                  /\ freep \notin LiveBlocks
                  /\ freep = baseAddr \/ (freep \in PoolSlots /\ size[freep] >= 1)
    /\ \A n \in ReqSizes :
           LET k == Len(FreeList(SeedList(Heap)))
               r == SearchWithin(Heap, n, k + (k + 1))
           IN  r.heap.st = "ok"
    /\ \A p \in DOMAIN live :
           FreeScan(Heap, HeaderOf(p), freep, Len(FreeList(Heap))) \in ListNodes(Heap)

(* A malloc carved space that merged into the free block ending at the    *)
(* cursor, went round the list to that block, and left freep before it.   *)
C20_Witness ==
    /\ last.op = "malloc" /\ last.ret # NULL
    /\ pool_free_pos > last.pos0
    /\ freep # baseAddr
    /\ next[freep] < PoolAddr + last.pos0
    /\ next[freep] + size[next[freep]] * SizeofHeader > PoolAddr + last.pos0

====
